---- MODULE Spec2Model ----
(***************************************************************************)
(* A model of swarms.structs.flow.Flow: the autonomous loop Flow.run, its  *)
(* stopping check, its retry loop, the session history it records, the     *)
(* memory of sessions, Flow.undo_last, the checkpoints (save_state,        *)
(* load_state), the response filters, the methods built on run            *)
(* (run_with_timeout, filtered_run, run_concurrent) and arun; and of       *)
(* swarms.swarms.god_mode.GodMode: run and concurrent_run.                 *)
(*                                                                         *)
(* A Python string is a sequence of one-character strings, so substring    *)
(* containment ("<DONE>" in response) and f-string concatenation           *)
(* (f"AI: {response}") are computed, not assumed.                           *)
(***************************************************************************)
EXTENDS Integers, Sequences, FiniteSets, TLC

VARIABLES
    \* ---- fields of the Flow object (Flow.__init__) ----
    max_loops,            \* self.max_loops
    stopping_condition,   \* self.stopping_condition: NoCondition or the name of a predicate
    stopping_token,       \* self.stopping_token: NONE or a string
    retry_attempts,       \* self.retry_attempts
    interactive,          \* self.interactive
    dynamic_temperature,  \* self.dynamic_temperature (the constructor's bool)
    return_history,       \* self.return_history
    loop_interval,        \* self.loop_interval
    retry_interval,       \* self.retry_interval
    dashboard,            \* self.dashboard
    autosave,             \* self.autosave
    disk,                 \* the file at self.saved_state_path
    memory,               \* self.memory: a list of sessions, each a list of strings
    \* ---- the frame of the Flow.run call in progress ----
    pc,                   \* position in Flow.run
    task,                 \* local `task`: the argument, then the prompt of line 427
    response,             \* local `response`
    history,              \* local `history`
    loop_count,           \* local `loop_count`
    attempt,              \* local `attempt`
    ret,                  \* what the last finished call returned
    \* ---- history variables of the verification (never read by the program) ----
    last_op,              \* the operation that finished last
    seed,                 \* the task argument of the current run
    mem_before,           \* self.memory when the last operation started
    invocations,          \* self.llm calls started in the current run
    failures,             \* self.llm calls of the current run that raised
    iter_calls,           \* self.llm calls started in the current loop iteration
    iter_ok,              \* a self.llm call of the current iteration has returned
    need_delay,           \* a call raised and time.sleep(retry_interval) has not run yet
    exhausted,            \* some iteration of the current run used up its attempts
    iter_start_len,       \* len(history) when the current iteration started
    agent_response,       \* the last value self.llm returned in the current run
    exit_reason,          \* how the while loop of the current run was left
    runs,                 \* Flow.run calls started so far
    \* ---- more of the Flow object ----
    response_filters,     \* self.response_filters
    filters_requested,    \* history variable: the words passed to add_response_filter so far
    cfg_before,           \* history variable: the fields load_state may write, when the last operation started
    ops,                  \* history variable: save_state / load_state / Flow(...) / step / truncate_history calls so far
    \* ---- the frame of the Flow method that called Flow.run and waits for it ----
    wrapper,              \* "none", "run_with_timeout" or "filtered_run"
    timeout,              \* run_with_timeout's argument `timeout`
    elapsed,              \* run_with_timeout's end_time - start_time
    run_ret,              \* what the Flow.run call returned to the method
    \* ---- the GodMode object (swarms/swarms/god_mode.py) ----
    llms,                 \* self.llms: the capabilities, by position
    last_responses,       \* self.last_responses
    task_history,         \* self.task_history
    swarm_pc,             \* position in GodMode.run / GodMode.concurrent_run
    swarm_op,             \* the GodMode call in progress, or the one that finished last
    swarm_task,           \* its task argument
    futures,              \* the executor's futures, by position of submission
    completed,            \* the positions of the finished futures, in order of completion
    responses,            \* concurrent_run's local `responses`
    collected,            \* the futures as_completed has yielded so far
    swarm_ret,            \* what the last finished GodMode call returned
    swarm_before,         \* history variable: last_responses and task_history when the call started
    swarm_calls,          \* history variable: GodMode calls started so far
    swarm_llm             \* the llm argument of the last add_llm / remove_llm

cfg == <<max_loops, stopping_condition, stopping_token, retry_attempts,
         interactive, dynamic_temperature, return_history, loop_interval,
         retry_interval, dashboard, autosave>>
frame == <<pc, task, response, history, loop_count, attempt>>
ghost == <<seed, invocations, failures, iter_calls, iter_ok, need_delay,
           exhausted, iter_start_len, agent_response, exit_reason>>
swarm == <<llms, last_responses, task_history, swarm_pc, swarm_op, swarm_task,
           futures, completed, responses, collected, swarm_ret, swarm_before,
           swarm_calls, swarm_llm>>
filters == <<response_filters, filters_requested>>
wrap == <<wrapper, timeout, elapsed, run_ret>>
vars == <<cfg, memory, disk, frame, ret, last_op, mem_before, ghost, runs,
          filters, cfg_before, ops, wrap, swarm>>

----------------------------------------------------------------------------
\* Bounds of the model.
MaxLoops == 2
MaxRetries == 2
MaxRuns == 2

\* ---- strings ----
\* Python's None, as a value comparable with strings.
NONE == <<"None">>

\* "<DONE>", the literal of parse_done_token.
DONE_TOKEN == <<"<", "D", "O", "N", "E", ">">>

STOP_WORD == <<"S", "T", "O", "P">>
OK_WORD == <<"o", "k">>

\* s[i..i+Len(t)-1] = t for some i: Python's `t in s` for strings.
IsSubstring(t, s) ==
    \E i \in 0..(Len(s) - Len(t)) :
        \A j \in 1..Len(t) : s[i + j] = t[j]

\* Python truthiness of an Optional[str]: None and "" are false.
Truthy(s) == s # NONE /\ s # <<>>

\* The texts the environment supplies: tasks, model outputs, human input.
Tasks == {OK_WORD, STOP_WORD, DONE_TOKEN}
Responses == {OK_WORD, STOP_WORD, <<"a">> \o DONE_TOKEN}
HumanInputs == {OK_WORD, DONE_TOKEN}

\* The values a caller may pass as stopping_token.
StoppingTokens == {NONE, DONE_TOKEN, STOP_WORD}

\* The values a caller may pass as stopping_condition: None, or a callable
\* str -> bool (here: lambda r: "STOP" in r).
NoCondition == "None"
StoppingConditions == {NoCondition, "contains_STOP"}

Last(s) == s[Len(s)]

----------------------------------------------------------------------------
\* ---- pure parts of flow.py ----

\* The "auto" of `self.max_loops = "auto"` (dynamic_loops), as a value that is
\* no loop count.
AUTO == -1

USER_NAME == <<"H", "u", "m", "a", "n">>
AI_PREFIX == <<"A", "I", ":", " ">>
HUMAN_PREFIX == <<"H", "u", "m", "a", "n", ":", " ">>

\* FLOW_SYSTEM_PROMPT, kept as one opaque chunk of text.
FLOW_SYSTEM_PROMPT == <<"You are an autonomous agent granted autonomy in a autonomous loop structure.">>

\* f"{self.user_name}: {task}"
UserTurn(t) == USER_NAME \o <<":", " ">> \o t

\* A variant of AgentTurn that records the returned text without its prefix.
AgentTurn_Bare(r) == r

\* f"AI: {response}"
AgentTurn(r) == AI_PREFIX \o r

\* f"Human: {response}"
HumanTurn(h) == HUMAN_PREFIX \o h

\* parse_done_token: "<DONE>" in response
parse_done_token(resp) == IsSubstring(DONE_TOKEN, resp)

\* A caller's predicate applied to a response.
ApplyCondition(cond, resp) ==
    CASE cond = "contains_STOP" -> IsSubstring(STOP_WORD, resp)
      [] OTHER -> FALSE

\* Flow._check_stopping_condition
check_stopping_condition(cond, resp) ==
    IF cond # NoCondition THEN ApplyCondition(cond, resp) ELSE FALSE

\* `while self.max_loops == "auto" or loop_count < self.max_loops`
LoopCondition(ml, lc) == ml = AUTO \/ lc < ml

\* The guard left out: the stopping check runs in every configuration.
StopCheckGuard_Always(tok) == TRUE

\* `if self.stopping_token:` the guard of the stopping check in Flow.run
StopCheckGuard(tok) == Truthy(tok)

\* validate_response: the length below which a response is "too short".
MinResponseLength == 5

\* Flow.validate_response: `if len(response) < 5: return False`, else True.
\* Flow.run never calls it.
validate_response(resp) == ~(Len(resp) < MinResponseLength)

\* The loop also left on a response that fails validate_response.
StopMatches_Validating(cond, resp) ==
    \/ check_stopping_condition(cond, resp)
    \/ parse_done_token(resp)
    \/ ~validate_response(resp)

\* `if self._check_stopping_condition(response) or parse_done_token(response): break`
StopMatches(cond, resp) ==
    check_stopping_condition(cond, resp) \/ parse_done_token(resp)

\* Flow.agent_history_prompt(system_prompt, history)
agent_history_prompt(system_prompt, hist) ==
    <<"SYSTEM_PROMPT: ">> \o system_prompt \o <<"History: ">> \o hist

\* Off by one: `while attempt <= self.retry_attempts`.
RetryCondition_OffByOne(att, retries) == att <= retries

\* `while attempt < self.retry_attempts`
RetryCondition(att, retries) == att < retries

\* `history.append(response)` after the retry loop
AppendAfterRetry(h, r) == Append(h, r)

\* The session put first: `self.memory.insert(0, history)`.
ExitMemory_Front(mem, h) == <<h>> \o mem

\* The memory replaced by the new session: `self.memory = [history]`.
ExitMemory_Reset(mem, h) == <<h>>

\* `self.memory.append(history)`
ExitMemory(mem, h) == Append(mem, h)

\* `return (response, history) if self.return_history else response`
RunReturn(rh, r, h) ==
    IF rh THEN [kind |-> "response_history", response |-> r, history |-> h]
    ELSE [kind |-> "response", response |-> r, history |-> <<>>]

\* Off by one: `if len(self.memory) <= 2`.
UndoNothing_OffByOne(mem) == Len(mem) <= 2

\* undo_last: `if len(self.memory) < 2: return None, None`
UndoNothing(mem) == Len(mem) < 2

\* The oldest session dropped: `self.memory.pop(0)`.
UndoPop_First(mem) == SubSeq(mem, 2, Len(mem))

\* undo_last: `self.memory.pop()`
UndoPop(mem) == SubSeq(mem, 1, Len(mem) - 1)

\* An element of self.memory is a list (a session, which starts with the seed
\* turn "Human: ...") or a string (appended by Flow.step): the first entry of
\* a list is a string of several characters, that of a string one character.
IsList(e) == Len(e[1]) > 1

\* undo_last: `previous_state = self.memory[-1][-1]`, read after the pop.  The
\* last entry of a session is a string; the last entry of a string is its last
\* character, a string of length one.
UndoPreviousState(mem) ==
    IF IsList(Last(mem)) THEN Last(Last(mem)) ELSE <<Last(Last(mem))>>

\* undo_last: f"Restored to {previous_state}"
RestoredMessage(prev) == <<"Restored to ">> \o prev

\* save_state: the dict that json.dump writes
SavedState(mem, li, ra, ri, ia, db, dt) ==
    [memory |-> mem, loop_interval |-> li, retry_attempts |-> ra,
     retry_interval |-> ri, interactive |-> ia, dashboard |-> db,
     dynamic_temperature |-> dt]

\* No file at the path.
NoFile == [exists |-> FALSE]

\* The file after save_state wrote the dict d.
FileOf(d) == [exists |-> TRUE, state |-> d]

\* Lines 458-461: `if self.autosave: self.save_state(save_path)`
Autosaved(as, old, d) == IF as THEN FileOf(d) ELSE old

NoReturn == [kind |-> "none"]

\* GodMode(llms), lines 41-51, and no call on it yet.
GodModeInit(l) ==
    /\ llms = l
    /\ last_responses = NONE
    /\ task_history = <<>>
    /\ swarm_pc = "idle"
    /\ swarm_op = "none"
    /\ swarm_task = <<>>
    /\ futures = <<>>
    /\ completed = <<>>
    /\ responses = <<>>
    /\ collected = {}
    /\ swarm_ret = NoReturn
    /\ swarm_before = <<>>
    /\ swarm_calls = 0
    /\ swarm_llm = "none"

\* No GodMode object is in play.
NoSwarm == GodModeInit(<<>>)

----------------------------------------------------------------------------
\* ---- the state after Flow(llm, ...) ----
\* `loops` holds the values self.max_loops may get: the max_loops argument,
\* or "auto" with dynamic_loops=True (lines 163, 179-180).
FlowInitLoops(loops) ==
    /\ max_loops \in loops
    /\ stopping_condition \in StoppingConditions
    /\ stopping_token \in StoppingTokens
    /\ retry_attempts \in 1..MaxRetries
    /\ interactive \in BOOLEAN
    /\ dynamic_temperature \in BOOLEAN
    /\ return_history \in BOOLEAN
    /\ loop_interval = 1
    /\ retry_interval = 1
    /\ dashboard = FALSE
    /\ autosave \in BOOLEAN
    /\ disk = NoFile
    /\ memory = <<>>
    /\ pc = "idle"
    /\ task = <<>>
    /\ response = <<>>
    /\ history = <<>>
    /\ loop_count = 0
    /\ attempt = 0
    /\ ret = NoReturn
    /\ last_op = "none"
    /\ seed = <<>>
    /\ mem_before = <<>>
    /\ invocations = 0
    /\ failures = 0
    /\ iter_calls = 0
    /\ iter_ok = FALSE
    /\ need_delay = FALSE
    /\ exhausted = FALSE
    /\ iter_start_len = 0
    /\ agent_response = <<>>
    /\ exit_reason = "none"
    /\ runs = 0
    /\ response_filters = <<>>
    /\ filters_requested = <<>>
    /\ cfg_before = <<>>
    /\ ops = 0
    /\ wrapper = "none"
    /\ timeout = 0
    /\ elapsed = 0
    /\ run_ret = NoReturn

\* Flow(llm, max_loops=N, ...) with a finite N.
FlowInit == FlowInitLoops(1..MaxLoops)

Init == FlowInit /\ NoSwarm

\* No call on the Flow is in progress.
Quiescent == pc \in {"idle", "done", "raised"}

\* Flow.run(task), lines 400-409: seed the response and the history.
RunBody(t) ==
    /\ Quiescent
    /\ runs < MaxRuns
    /\ runs' = runs + 1
    /\ task' = t
    /\ response' = t
    /\ history' = <<UserTurn(t)>>
    /\ loop_count' = 0
    /\ attempt' = 0
    /\ pc' = "loop_test"
    /\ ret' = NoReturn
    /\ last_op' = "run"
    /\ seed' = t
    /\ mem_before' = memory
    /\ invocations' = 0
    /\ failures' = 0
    /\ iter_calls' = 0
    /\ iter_ok' = FALSE
    /\ need_delay' = FALSE
    /\ exhausted' = FALSE
    /\ iter_start_len' = 1
    /\ agent_response' = <<>>
    /\ exit_reason' = "none"
    /\ UNCHANGED <<swarm, filters, cfg_before, ops, cfg, memory, disk>>

\* Flow.run(task) called by the user of the Flow.
RunStart(t) == RunBody(t) /\ UNCHANGED wrap

\* Line 411-412: the while test, and `loop_count += 1` when it holds.
LoopEnter ==
    /\ pc = "loop_test"
    /\ LoopCondition(max_loops, loop_count)
    /\ loop_count' = loop_count + 1
    /\ pc' = "stop_check"
    /\ iter_calls' = 0
    /\ iter_ok' = FALSE
    /\ iter_start_len' = Len(history)
    /\ UNCHANGED <<wrap, swarm, filters, cfg_before, ops, cfg, memory, disk, task, response, history, attempt, ret, last_op,
                   mem_before, seed, invocations, failures, need_delay, exhausted,
                   agent_response, exit_reason, runs>>

\* Line 411: the while test fails and the loop ends.
LoopEnd ==
    /\ pc = "loop_test"
    /\ ~LoopCondition(max_loops, loop_count)
    /\ pc' = "exit"
    /\ exit_reason' = "MaxLoopsReached"
    /\ UNCHANGED <<wrap, swarm, filters, cfg_before, ops, cfg, memory, disk, task, response, history, loop_count, attempt, ret,
                   last_op, mem_before, seed, invocations, failures, iter_calls,
                   iter_ok, need_delay, exhausted, iter_start_len, agent_response,
                   runs>>

\* Lines 416-420: the stopping check breaks out of the loop.
StopBreak ==
    /\ pc = "stop_check"
    /\ StopCheckGuard(stopping_token)
    /\ StopMatches(stopping_condition, response)
    /\ pc' = "exit"
    /\ exit_reason' = "break"
    /\ UNCHANGED <<wrap, swarm, filters, cfg_before, ops, cfg, memory, disk, task, response, history, loop_count, attempt, ret,
                   last_op, mem_before, seed, invocations, failures, iter_calls,
                   iter_ok, need_delay, exhausted, iter_start_len, agent_response,
                   runs>>

\* Lines 416-420: the stopping check lets the iteration go on.
StopPass ==
    /\ pc = "stop_check"
    /\ ~(StopCheckGuard(stopping_token) /\ StopMatches(stopping_condition, response))
    /\ pc' = "temperature"
    /\ UNCHANGED <<wrap, swarm, filters, cfg_before, ops, cfg, memory, disk, task, response, history, loop_count, attempt, ret,
                   last_op, mem_before, ghost, runs>>

\* Lines 423-424 with dynamic_temperature=True: __init__ stored the bool in
\* self.dynamic_temperature (line 175), which hides the method of that name, so
\* `self.dynamic_temperature()` calls a bool: TypeError, outside every try, and
\* Flow.run ends by raising (nothing after the loop runs).
TemperatureRaise ==
    /\ pc = "temperature"
    /\ dynamic_temperature
    /\ pc' = "raised"
    /\ ret' = [kind |-> "raise", error |-> "TypeError"]
    /\ UNCHANGED <<wrap, swarm, filters, cfg_before, ops, cfg, memory, disk, task, response, history, loop_count, attempt,
                   last_op, mem_before, ghost, runs>>

\* Lines 423-424 with dynamic_temperature=False: nothing to adjust.
TemperatureSkip ==
    /\ pc = "temperature"
    /\ ~dynamic_temperature
    /\ pc' = "prompt"
    /\ UNCHANGED <<wrap, swarm, filters, cfg_before, ops, cfg, memory, disk, task, response, history, loop_count, attempt, ret,
                   last_op, mem_before, ghost, runs>>

\* Lines 427-429: build the prompt from the current response, reset `attempt`.
PreparePrompt ==
    /\ pc = "prompt"
    /\ task' = agent_history_prompt(FLOW_SYSTEM_PROMPT, response)
    /\ attempt' = 0
    /\ pc' = "retry_test"
    /\ UNCHANGED <<wrap, swarm, filters, cfg_before, ops, cfg, memory, disk, response, history, loop_count, ret, last_op,
                   mem_before, ghost, runs>>

\* Lines 430-432: the retry test holds and self.llm(task) is called.
LlmInvoke ==
    /\ pc = "retry_test"
    /\ RetryCondition(attempt, retry_attempts)
    /\ pc' = "in_flight"
    /\ invocations' = invocations + 1
    /\ iter_calls' = iter_calls + 1
    /\ UNCHANGED <<wrap, swarm, filters, cfg_before, ops, cfg, memory, disk, task, response, history, loop_count, attempt, ret,
                   last_op, mem_before, seed, failures, iter_ok, need_delay,
                   exhausted, iter_start_len, agent_response, exit_reason, runs>>

\* Line 430: the retry test fails: every attempt raised.
RetryExhausted ==
    /\ pc = "retry_test"
    /\ ~RetryCondition(attempt, retry_attempts)
    /\ pc' = "after_retry"
    /\ exhausted' = TRUE
    /\ UNCHANGED <<wrap, swarm, filters, cfg_before, ops, cfg, memory, disk, task, response, history, loop_count, attempt, ret,
                   last_op, mem_before, seed, invocations, failures, iter_calls,
                   iter_ok, need_delay, iter_start_len, agent_response, exit_reason,
                   runs>>

\* Lines 432-449: self.llm returns r; the AI turn is recorded; without
\* interactive the retry loop is left by `break`.
LlmReturn(r) ==
    /\ pc = "in_flight"
    /\ response' = r
    /\ history' = Append(history, AgentTurn(r))
    /\ pc' = IF interactive THEN "input" ELSE "after_retry"
    /\ iter_ok' = TRUE
    /\ agent_response' = r
    /\ UNCHANGED <<wrap, swarm, filters, cfg_before, ops, cfg, memory, disk, task, loop_count, attempt, ret, last_op, mem_before,
                   seed, invocations, failures, iter_calls, need_delay, exhausted,
                   iter_start_len, exit_reason, runs>>

\* Lines 443-444, 449: interactive: input("You: ") replaces the response and
\* is recorded as a Human turn; then `break`.
HumanInput(h) ==
    /\ pc = "input"
    /\ response' = h
    /\ history' = Append(history, HumanTurn(h))
    /\ pc' = "after_retry"
    /\ UNCHANGED <<wrap, swarm, filters, cfg_before, ops, cfg, memory, disk, task, loop_count, attempt, ret, last_op, mem_before,
                   ghost, runs>>

\* Lines 450-452: self.llm raises; the error is logged, `attempt += 1`.
LlmRaise ==
    /\ pc = "in_flight"
    /\ attempt' = attempt + 1
    /\ pc' = "retry_sleep"
    /\ failures' = failures + 1
    /\ need_delay' = TRUE
    /\ UNCHANGED <<wrap, swarm, filters, cfg_before, ops, cfg, memory, disk, task, response, history, loop_count, ret, last_op,
                   mem_before, seed, invocations, iter_calls, iter_ok, exhausted,
                   iter_start_len, agent_response, exit_reason, runs>>

\* Line 453: time.sleep(self.retry_interval), then back to the retry test.
RetrySleep ==
    /\ pc = "retry_sleep"
    /\ need_delay' = FALSE
    /\ pc' = "retry_test"
    /\ UNCHANGED <<wrap, swarm, filters, cfg_before, ops, cfg, memory, disk, task, response, history, loop_count, attempt, ret,
                   last_op, mem_before, seed, invocations, failures, iter_calls,
                   iter_ok, exhausted, iter_start_len, agent_response, exit_reason,
                   runs>>

\* Lines 454-455: after the retry loop, however it ended: the current response
\* is appended to the history, then time.sleep(self.loop_interval).
AfterRetry ==
    /\ pc = "after_retry"
    /\ history' = AppendAfterRetry(history, response)
    /\ pc' = "loop_test"
    /\ UNCHANGED <<wrap, swarm, filters, cfg_before, ops, cfg, memory, disk, task, response, loop_count, attempt, ret, last_op,
                   mem_before, ghost, runs>>

\* Lines 456-463: after the loop: the session is appended to the memory, the
\* state is saved when autosave is set, and the call returns.
RunExit ==
    /\ pc = "exit"
    /\ memory' = ExitMemory(memory, history)
    /\ disk' = Autosaved(autosave, disk,
                         SavedState(memory', loop_interval, retry_attempts,
                                    retry_interval, interactive, dashboard,
                                    dynamic_temperature))
    /\ ret' = RunReturn(return_history, response, history)
    /\ pc' = "done"
    /\ UNCHANGED <<wrap, swarm, filters, cfg_before, ops, cfg, task, response, history, loop_count, attempt, last_op,
                   mem_before, ghost, runs>>

\* Flow.undo_last, lines 711-719.
UndoLast ==
    /\ Quiescent
    /\ last_op' = "undo_last"
    /\ mem_before' = memory
    /\ pc' = "idle"
    /\ IF UndoNothing(memory)
       THEN /\ memory' = memory
            /\ ret' = [kind |-> "undo", state |-> NONE, message |-> NONE]
       ELSE /\ memory' = UndoPop(memory)
            /\ ret' = [kind |-> "undo",
                       state |-> UndoPreviousState(UndoPop(memory)),
                       message |-> RestoredMessage(UndoPreviousState(UndoPop(memory)))]
    /\ UNCHANGED <<wrap, swarm, filters, cfg_before, ops, cfg, disk, task, response, history, loop_count, attempt, ghost,
                   runs>>

\* One Flow.run call on a freshly constructed Flow.
FirstRun(t) == runs = 0 /\ RunStart(t)

\* A single run, over every configuration and every text.
Next ==
    \/ \E t \in Tasks : FirstRun(t)
    \/ LoopEnter
    \/ LoopEnd
    \/ StopBreak
    \/ StopPass
    \/ TemperatureRaise
    \/ TemperatureSkip
    \/ PreparePrompt
    \/ LlmInvoke
    \/ RetryExhausted
    \/ \E r \in Responses : LlmReturn(r)
    \/ \E h \in HumanInputs : HumanInput(h)
    \/ LlmRaise
    \/ RetrySleep
    \/ AfterRetry
    \/ RunExit

Spec == Init /\ [][Next]_vars

\* Several calls on one Flow, one after the other (run and undo_last), over
\* the non-interactive configurations and fewer texts.
MemoryTasks == {OK_WORD, DONE_TOKEN}
MemoryResponses == {STOP_WORD}

InitMemory ==
    /\ Init
    /\ stopping_condition = NoCondition
    /\ stopping_token \in {NONE, DONE_TOKEN}
    /\ interactive = FALSE

NextMemory ==
    \/ \E t \in MemoryTasks : RunStart(t)
    \/ LoopEnter
    \/ LoopEnd
    \/ StopBreak
    \/ StopPass
    \/ TemperatureRaise
    \/ TemperatureSkip
    \/ PreparePrompt
    \/ LlmInvoke
    \/ RetryExhausted
    \/ \E r \in MemoryResponses : LlmReturn(r)
    \/ LlmRaise
    \/ RetrySleep
    \/ AfterRetry
    \/ RunExit
    \/ UndoLast

SpecMemory == InitMemory /\ [][NextMemory]_vars

----------------------------------------------------------------------------
\* ---- checkpoints: Flow.save_state, Flow.load_state ----

\* Calls of save_state, load_state, the setters and Flow(...) in one behaviour.
MaxCheckpointOps == 3

\* The defaults of load_state's state.get(key, default).
LoadDefaultMaxLoops == 5
LoadDefaultLoopInterval == 1
LoadDefaultRetryAttempts == 3
LoadDefaultRetryInterval == 1

\* The defaults of Flow.__init__'s max_loops and retry_attempts.
InitDefaultMaxLoops == 5
InitDefaultRetryAttempts == 3

\* The values a caller passes to update_loop_interval / update_retry_interval.
Intervals == {1, 2}

\* A missing file read as an empty document.
ReadFile_EmptyDefault(file) ==
    IF file.exists THEN [ok |-> TRUE, state |-> file.state]
    ELSE [ok |-> TRUE, state |-> <<>>]

\* `with open(file_path, "r") as f: state = json.load(f)`: open raises
\* FileNotFoundError when there is no file.  json.load gives back what
\* json.dump wrote: the document holds only lists, strings, ints and bools.
ReadFile(file) ==
    IF file.exists THEN [ok |-> TRUE, state |-> file.state]
    ELSE [ok |-> FALSE, state |-> <<>>]

\* dict.get(key, default)
StateGet(state, key, default) ==
    IF key \in DOMAIN state THEN state[key] ELSE default

\* The fields of the Flow, for comparison across an operation.
Snapshot ==
    [memory |-> memory, max_loops |-> max_loops,
     stopping_condition |-> stopping_condition,
     stopping_token |-> stopping_token, retry_attempts |-> retry_attempts,
     interactive |-> interactive, dynamic_temperature |-> dynamic_temperature,
     return_history |-> return_history, loop_interval |-> loop_interval,
     retry_interval |-> retry_interval, dashboard |-> dashboard,
     autosave |-> autosave]

\* Flow.save_state(file_path), lines 826-841.
SaveState ==
    /\ Quiescent
    /\ ops < MaxCheckpointOps
    /\ ops' = ops + 1
    /\ last_op' = "save_state"
    /\ cfg_before' = Snapshot
    /\ disk' = FileOf(SavedState(memory, loop_interval, retry_attempts,
                                 retry_interval, interactive, dashboard,
                                 dynamic_temperature))
    /\ ret' = [kind |-> "saved"]
    /\ UNCHANGED <<wrap, swarm, filters, cfg, memory, frame, mem_before,
                   ghost, runs>>

\* Flow.load_state(file_path), lines 854-865.
LoadState ==
    /\ Quiescent
    /\ ops < MaxCheckpointOps
    /\ ops' = ops + 1
    /\ last_op' = "load_state"
    /\ cfg_before' = Snapshot
    /\ LET f == ReadFile(disk) IN
         IF f.ok
         THEN /\ memory' = StateGet(f.state, "memory", <<>>)
              /\ max_loops' = StateGet(f.state, "max_loops", LoadDefaultMaxLoops)
              /\ loop_interval' = StateGet(f.state, "loop_interval", LoadDefaultLoopInterval)
              /\ retry_attempts' = StateGet(f.state, "retry_attempts", LoadDefaultRetryAttempts)
              /\ retry_interval' = StateGet(f.state, "retry_interval", LoadDefaultRetryInterval)
              /\ interactive' = StateGet(f.state, "interactive", FALSE)
              /\ ret' = [kind |-> "loaded"]
         ELSE /\ ret' = [kind |-> "raise", error |-> "FileNotFoundError"]
              /\ UNCHANGED <<memory, max_loops, loop_interval, retry_attempts,
                             retry_interval, interactive>>
    /\ UNCHANGED <<wrap, swarm, filters, stopping_condition, stopping_token,
                   dynamic_temperature, return_history, dashboard, autosave,
                   disk, frame, mem_before, ghost, runs>>

\* Flow.update_max_loops
UpdateMaxLoops(v) ==
    /\ Quiescent
    /\ ops < MaxCheckpointOps
    /\ ops' = ops + 1
    /\ last_op' = "update_max_loops"
    /\ cfg_before' = Snapshot
    /\ max_loops' = v
    /\ UNCHANGED <<wrap, swarm, filters, stopping_condition, stopping_token,
                   retry_attempts, interactive, dynamic_temperature,
                   return_history, loop_interval, retry_interval, dashboard,
                   autosave, memory, disk, frame, ret, mem_before, ghost, runs>>

\* Flow.update_loop_interval
UpdateLoopInterval(v) ==
    /\ Quiescent
    /\ ops < MaxCheckpointOps
    /\ ops' = ops + 1
    /\ last_op' = "update_loop_interval"
    /\ cfg_before' = Snapshot
    /\ loop_interval' = v
    /\ UNCHANGED <<wrap, swarm, filters, max_loops, stopping_condition,
                   stopping_token, retry_attempts, interactive,
                   dynamic_temperature, return_history, retry_interval,
                   dashboard, autosave, memory, disk, frame, ret, mem_before,
                   ghost, runs>>

\* Flow.update_retry_attempts
UpdateRetryAttempts(v) ==
    /\ Quiescent
    /\ ops < MaxCheckpointOps
    /\ ops' = ops + 1
    /\ last_op' = "update_retry_attempts"
    /\ cfg_before' = Snapshot
    /\ retry_attempts' = v
    /\ UNCHANGED <<wrap, swarm, filters, max_loops, stopping_condition,
                   stopping_token, interactive, dynamic_temperature,
                   return_history, loop_interval, retry_interval, dashboard,
                   autosave, memory, disk, frame, ret, mem_before, ghost, runs>>

\* Flow.update_retry_interval
UpdateRetryInterval(v) ==
    /\ Quiescent
    /\ ops < MaxCheckpointOps
    /\ ops' = ops + 1
    /\ last_op' = "update_retry_interval"
    /\ cfg_before' = Snapshot
    /\ retry_interval' = v
    /\ UNCHANGED <<wrap, swarm, filters, max_loops, stopping_condition,
                   stopping_token, retry_attempts, interactive,
                   dynamic_temperature, return_history, loop_interval,
                   dashboard, autosave, memory, disk, frame, ret, mem_before,
                   ghost, runs>>

\* flow = Flow(llm, interactive=ia, dynamic_temperature=dt), the other
\* arguments at their defaults: a new object in the same process; the file at
\* saved_state_path stays (the scenario of load_state's docstring).
Construct(ia, dt) ==
    /\ Quiescent
    /\ ops < MaxCheckpointOps
    /\ ops' = ops + 1
    /\ last_op' = "construct"
    /\ cfg_before' = Snapshot
    /\ max_loops' = InitDefaultMaxLoops
    /\ retry_attempts' = InitDefaultRetryAttempts
    /\ interactive' = ia
    /\ dynamic_temperature' = dt
    /\ loop_interval' = 1
    /\ retry_interval' = 1
    /\ dashboard' = FALSE
    /\ memory' = <<>>
    /\ response_filters' = <<>>
    /\ filters_requested' = <<>>
    /\ pc' = "idle"
    /\ task' = <<>>
    /\ response' = <<>>
    /\ history' = <<>>
    /\ loop_count' = 0
    /\ attempt' = 0
    /\ ret' = NoReturn
    /\ UNCHANGED <<wrap, swarm, stopping_condition, stopping_token, return_history,
                   autosave, disk, mem_before, ghost, runs>>

\* Runs with one text, then checkpoint operations, over the configurations
\* without a stopping policy.
CheckpointTexts == {OK_WORD}

InitCheckpoint ==
    /\ Init
    /\ stopping_condition = NoCondition
    /\ stopping_token = NONE
    /\ return_history = FALSE
    /\ autosave = FALSE

\* One Flow.run, on a Flow no checkpoint operation has touched yet.
RunBeforeCheckpoint(t) == ops = 0 /\ FirstRun(t)

NextCheckpoint ==
    \/ \E t \in CheckpointTexts : RunBeforeCheckpoint(t)
    \/ LoopEnter
    \/ LoopEnd
    \/ StopPass
    \/ TemperatureRaise
    \/ TemperatureSkip
    \/ PreparePrompt
    \/ LlmInvoke
    \/ RetryExhausted
    \/ \E r \in CheckpointTexts : LlmReturn(r)
    \/ \E h \in CheckpointTexts : HumanInput(h)
    \/ LlmRaise
    \/ RetrySleep
    \/ AfterRetry
    \/ RunExit
    \/ SaveState
    \/ LoadState
    \/ \E v \in 1..MaxLoops : UpdateMaxLoops(v)
    \/ \E v \in Intervals : UpdateLoopInterval(v)
    \/ \E v \in 1..MaxRetries : UpdateRetryAttempts(v)
    \/ \E v \in Intervals : UpdateRetryInterval(v)
    \/ \E ia \in BOOLEAN, dt \in BOOLEAN : Construct(ia, dt)

SpecCheckpoint == InitCheckpoint /\ [][NextCheckpoint]_vars

----------------------------------------------------------------------------
\* ---- response filters: Flow.add_response_filter, Flow.apply_reponse_filters ----

\* Calls of add_response_filter in one behaviour.
MaxFilterCalls == 3

\* "[FILTERED]"
FILTERED == <<"[", "F", "I", "L", "T", "E", "R", "E", "D", "]">>

\* The attributes Flow.__init__ creates on the object that hold a list of
\* filter words (line 186).
FilterAttributes == {"response_filters"}

\* The attribute add_response_filter appends to (line 732).
AddFilterAttribute == "reponse_filters"

\* str.replace with an empty `old`: `new` before every character and at the end.
RECURSIVE ReplaceEmpty(_, _)
ReplaceEmpty(s, new) ==
    IF s = <<>> THEN new
    ELSE new \o <<Head(s)>> \o ReplaceEmpty(Tail(s), new)

\* str.replace(old, new): every occurrence, leftmost first, not overlapping.
RECURSIVE ReplaceFrom(_, _, _)
ReplaceFrom(s, old, new) ==
    IF Len(s) < Len(old) THEN s
    ELSE IF SubSeq(s, 1, Len(old)) = old
         THEN new \o ReplaceFrom(SubSeq(s, Len(old) + 1, Len(s)), old, new)
         ELSE <<Head(s)>> \o ReplaceFrom(Tail(s), old, new)

Replace(s, old, new) ==
    IF old = <<>> THEN ReplaceEmpty(s, new) ELSE ReplaceFrom(s, old, new)

\* apply_reponse_filters: `for word in self.response_filters:
\*     response = response.replace(word, "[FILTERED]")`
RECURSIVE apply_reponse_filters(_, _)
apply_reponse_filters(words, resp) ==
    IF words = <<>> THEN resp
    ELSE apply_reponse_filters(Tail(words), Replace(resp, Head(words), FILTERED))

\* The words and the texts a caller passes.
REPORT == <<"r", "e", "p", "o", "r", "t">>
FilterWords == {REPORT, <<"i", "s">>, <<"R", "e", "p", "o", "r", "t">>}
FilterTexts ==
    { <<"t", "h", "e", " ">> \o REPORT \o <<" ", "i", "s", " ", "r", "e", "a", "d", "y">>,
      <<"R", "e", "p", "o", "r", "t">>,
      REPORT \o REPORT,
      <<"t", "h", "i", "s">>,
      <<"o", "k">> }

\* Flow.add_response_filter(filter_word), line 732: the append goes to
\* self.reponse_filters, an attribute no line creates: AttributeError.
AddResponseFilter(w) ==
    /\ Quiescent
    /\ Len(filters_requested) < MaxFilterCalls
    /\ filters_requested' = Append(filters_requested, w)
    /\ last_op' = "add_response_filter"
    /\ IF AddFilterAttribute \in FilterAttributes
       THEN /\ response_filters' = Append(response_filters, w)
            /\ ret' = [kind |-> "none"]
       ELSE /\ response_filters' = response_filters
            /\ ret' = [kind |-> "raise", error |-> "AttributeError"]
    /\ UNCHANGED <<wrap, swarm, cfg_before, ops, cfg, memory, disk, frame,
                   mem_before, ghost, runs>>

\* Flow.apply_reponse_filters(response), lines 734-742.
ApplyResponseFilters(t) ==
    /\ Quiescent
    /\ last_op' = "apply_reponse_filters"
    /\ ret' = [kind |-> "filtered", input |-> t,
               text |-> apply_reponse_filters(response_filters, t)]
    /\ UNCHANGED <<wrap, swarm, filters, cfg_before, ops, cfg, memory, disk, frame,
                   mem_before, ghost, runs>>

\* One Flow of the default configuration, and the two filter operations.
InitFilter ==
    /\ Init
    /\ max_loops = 1
    /\ stopping_condition = NoCondition
    /\ stopping_token = NONE
    /\ retry_attempts = 1
    /\ interactive = FALSE
    /\ dynamic_temperature = FALSE
    /\ return_history = FALSE
    /\ autosave = FALSE

NextFilter ==
    \/ \E w \in FilterWords : AddResponseFilter(w)
    \/ \E t \in FilterTexts : ApplyResponseFilters(t)

SpecFilter == InitFilter /\ [][NextFilter]_vars

----------------------------------------------------------------------------
\* ---- GodMode (swarms/swarms/god_mode.py): run, concurrent_run ----

\* Capabilities held by one GodMode, and calls on it in one behaviour.
MaxLlms == 2
MaxSwarmCalls == 2

\* The callables a caller may put into llms.
Capabilities == {"echo", "ok"}

\* What the capability c returns for the task t, when it returns.
CapabilityValue(c, t) ==
    CASE c = "echo" -> t
      [] OTHER -> OK_WORD

SwarmTasks == {OK_WORD, STOP_WORD}

\* The lists of at most n capabilities, duplicates included.
Memberships(n) == UNION {[1..k -> Capabilities] : k \in 0..n}

Range(f) == {f[i] : i \in DOMAIN f}

\* One call per distinct capability: the future of a capability that sits at
\* an earlier position too is never started.
Submitted_Distinct(l) ==
    [i \in DOMAIN l |->
        IF \E j \in 1..(i - 1) : l[j] = l[i]
        THEN [state |-> "skipped", value |-> NONE]
        ELSE [state |-> "running", value |-> NONE]]

\* executor.submit / executor.map: one future per capability, by position.
Submitted(l) == [i \in DOMAIN l |-> [state |-> "running", value |-> NONE]]

\* Every future has finished.
AllFinished(futs) == \A i \in DOMAIN futs : futs[i].state # "running"

AnyRaised(futs) == \E i \in DOMAIN futs : futs[i].state = "raised"

\* The results taken in order of completion.
MapResults_Completion(futs, order) ==
    [k \in 1..Len(order) |-> futs[order[k]].value]

\* list(executor.map(...)): the results in order of submission.
MapResults(futs, order) == [i \in DOMAIN futs |-> futs[i].value]

\* A value already collected is not collected again.
CollectResult_Dedup(resps, v) ==
    IF v \in Range(resps) THEN resps ELSE Append(resps, v)

\* `responses.append(future.result())`
CollectResult(resps, v) == Append(resps, v)

\* The loop left as soon as one future was handled.
AllCollected_Any(coll, futs) == coll # {} \/ DOMAIN futs = {}

\* `for future in as_completed(future_to_llm)` is exhausted: every future was
\* yielded.
AllCollected(coll, futs) == coll = DOMAIN futs

\* No GodMode call is in progress.
SwarmQuiescent == swarm_pc \in {"idle", "returned", "raised"}

\* GodMode.run(task), line 55-56: the executor is created and map submits one
\* call per capability.
SwarmRunStart(t) ==
    /\ SwarmQuiescent
    /\ swarm_calls < MaxSwarmCalls
    /\ swarm_calls' = swarm_calls + 1
    /\ swarm_op' = "run"
    /\ swarm_task' = t
    /\ swarm_pc' = "run_wait"
    /\ futures' = Submitted(llms)
    /\ completed' = <<>>
    /\ responses' = <<>>
    /\ collected' = {}
    /\ swarm_ret' = NoReturn
    /\ swarm_before' = [last_responses |-> last_responses,
                        task_history |-> task_history]
    /\ UNCHANGED <<wrap, swarm_llm, llms, last_responses, task_history, cfg, memory, disk,
                   frame, ret, last_op, mem_before, ghost, runs, filters,
                   cfg_before, ops>>

\* GodMode.concurrent_run(task), lines 140-142: submit one call per capability.
ConcurrentStart(t) ==
    /\ SwarmQuiescent
    /\ swarm_calls < MaxSwarmCalls
    /\ swarm_calls' = swarm_calls + 1
    /\ swarm_op' = "concurrent_run"
    /\ swarm_task' = t
    /\ swarm_pc' = "collect"
    /\ futures' = Submitted(llms)
    /\ completed' = <<>>
    /\ responses' = <<>>
    /\ collected' = {}
    /\ swarm_ret' = NoReturn
    /\ swarm_before' = [last_responses |-> last_responses,
                        task_history |-> task_history]
    /\ UNCHANGED <<wrap, swarm_llm, llms, last_responses, task_history, cfg, memory, disk,
                   frame, ret, last_op, mem_before, ghost, runs, filters,
                   cfg_before, ops>>

\* A worker thread: llm(task) returns.
FutureReturn(i) ==
    /\ i \in DOMAIN futures
    /\ futures[i].state = "running"
    /\ futures' = [futures EXCEPT ![i] =
                       [state |-> "returned",
                        value |-> CapabilityValue(llms[i], swarm_task)]]
    /\ completed' = Append(completed, i)
    /\ UNCHANGED <<wrap, swarm_llm, llms, last_responses, task_history, swarm_pc, swarm_op,
                   swarm_task, responses, collected, swarm_ret, swarm_before,
                   swarm_calls, cfg, memory, disk, frame, ret, last_op,
                   mem_before, ghost, runs, filters, cfg_before, ops>>

\* A worker thread: llm(task) raises.
FutureRaise(i) ==
    /\ i \in DOMAIN futures
    /\ futures[i].state = "running"
    /\ futures' = [futures EXCEPT ![i] = [state |-> "raised", value |-> NONE]]
    /\ completed' = Append(completed, i)
    /\ UNCHANGED <<wrap, swarm_llm, llms, last_responses, task_history, swarm_pc, swarm_op,
                   swarm_task, responses, collected, swarm_ret, swarm_before,
                   swarm_calls, cfg, memory, disk, frame, ret, last_op,
                   mem_before, ghost, runs, filters, cfg_before, ops>>

\* GodMode.run, lines 55-57: leaving the `with` block waits for every worker;
\* list(responses) then yields the results by position, and raises what the
\* first failed call raised.
SwarmRunFinish ==
    /\ swarm_pc = "run_wait"
    /\ AllFinished(futures)
    /\ IF AnyRaised(futures)
       THEN /\ swarm_pc' = "raised"
            /\ swarm_ret' = [kind |-> "raise", value |-> <<>>]
       ELSE /\ swarm_pc' = "returned"
            /\ swarm_ret' = [kind |-> "list",
                             value |-> MapResults(futures, completed)]
    /\ UNCHANGED <<wrap, swarm_llm, llms, last_responses, task_history, swarm_op, swarm_task,
                   futures, completed, responses, collected, swarm_before,
                   swarm_calls, cfg, memory, disk, frame, ret, last_op,
                   mem_before, ghost, runs, filters, cfg_before, ops>>

\* concurrent_run, lines 143-147: as_completed yields a finished future (the
\* ones already finished in no particular order); its result is appended, or
\* its exception is printed.
Collect(i) ==
    /\ swarm_pc = "collect"
    /\ i \in DOMAIN futures
    /\ i \notin collected
    /\ futures[i].state # "running"
    /\ collected' = collected \cup {i}
    /\ responses' = IF futures[i].state = "returned"
                    THEN CollectResult(responses, futures[i].value)
                    ELSE responses
    /\ UNCHANGED <<wrap, swarm_llm, llms, last_responses, task_history, swarm_pc, swarm_op,
                   swarm_task, futures, completed, swarm_ret, swarm_before,
                   swarm_calls, cfg, memory, disk, frame, ret, last_op,
                   mem_before, ghost, runs, filters, cfg_before, ops>>

\* concurrent_run, lines 148-150: after the loop and the `with` block.
ConcurrentFinish ==
    /\ swarm_pc = "collect"
    /\ AllCollected(collected, futures)
    /\ last_responses' = responses
    /\ task_history' = Append(task_history, swarm_task)
    /\ swarm_ret' = [kind |-> "list", value |-> responses]
    /\ swarm_pc' = "returned"
    /\ UNCHANGED <<wrap, swarm_llm, llms, swarm_op, swarm_task, futures, completed, responses,
                   collected, swarm_before, swarm_calls, cfg, memory, disk,
                   frame, ret, last_op, mem_before, ghost, runs, filters,
                   cfg_before, ops>>

\* One GodMode over every membership (beside a Flow of the default
\* configuration that nothing calls).
InitSwarm ==
    /\ FlowInit
    /\ max_loops = 1
    /\ stopping_condition = NoCondition
    /\ stopping_token = NONE
    /\ retry_attempts = 1
    /\ interactive = FALSE
    /\ dynamic_temperature = FALSE
    /\ return_history = FALSE
    /\ autosave = FALSE
    /\ \E l \in Memberships(MaxLlms) : GodModeInit(l)

NextSwarm ==
    \/ \E t \in SwarmTasks : SwarmRunStart(t)
    \/ \E t \in SwarmTasks : ConcurrentStart(t)
    \/ \E i \in 1..MaxLlms : FutureReturn(i)
    \/ \E i \in 1..MaxLlms : FutureRaise(i)
    \/ SwarmRunFinish
    \/ \E i \in 1..MaxLlms : Collect(i)
    \/ ConcurrentFinish

SpecSwarm == InitSwarm /\ [][NextSwarm]_vars

----------------------------------------------------------------------------
\* ---- the methods that call Flow.run: run_with_timeout, filtered_run; and
\* ---- run_concurrent ----

\* The methods the class Flow defines that these callers name.
FlowMethods == {"run", "arun", "apply_reponse_filters"}

\* The method run_concurrent calls for each task (line 574).
ConcurrentTarget == "run_async"

\* The method filtered_run calls on the response (line 752).
FilteredRunTarget == "apply_response_filters"

\* The values a caller passes as `timeout` (60 is the default), and the
\* seconds a run may take beside its time.sleep calls.
Timeouts == {1, 60}
ExtraSeconds == {0, 1}

\* The lists of tasks a caller passes to run_concurrent.
TaskLists == {<<>>, <<OK_WORD>>, <<OK_WORD, STOP_WORD>>}

\* "Timeout"
TIMEOUT_TEXT == <<"T", "i", "m", "e", "o", "u", "t">>

\* The seconds the current run has spent in time.sleep: loop_interval after
\* each iteration that was not left by break (line 455), retry_interval after
\* each failed call (line 453).
SleptSeconds ==
    loop_interval * (loop_count - (IF exit_reason = "break" THEN 1 ELSE 0))
        + retry_interval * failures

\* run_with_timeout, lines 676-679: "Timeout" when the time exceeded the
\* bound, else what run returned.
TimeoutOutcome(secs, bound, r) ==
    IF secs > bound
    THEN [kind |-> "response", response |-> TIMEOUT_TEXT, history |-> <<>>]
    ELSE r

\* The time is compared while run is still executing.
TimeoutCheckReached_Preemptive(p) == p \notin {"idle", "done", "raised"}

\* run_with_timeout, lines 674-676: the comparison comes after
\* `response = self.run(task)` has returned.
TimeoutCheckReached(p) == p = "done"

\* Flow.run_with_timeout(task, timeout), lines 673-674: take the time and
\* call run.
RunWithTimeoutStart(t, s) ==
    /\ wrapper = "none"
    /\ RunBody(t)
    /\ wrapper' = "run_with_timeout"
    /\ timeout' = s
    /\ elapsed' = 0
    /\ run_ret' = NoReturn

\* run_with_timeout, lines 675-679: run has returned; take the time, compare.
RunWithTimeoutFinish(extra) ==
    /\ wrapper = "run_with_timeout"
    /\ TimeoutCheckReached(pc)
    /\ wrapper' = "none"
    /\ last_op' = "run_with_timeout"
    /\ run_ret' = RunReturn(return_history, response, history)
    /\ elapsed' = SleptSeconds + extra
    /\ ret' = TimeoutOutcome(elapsed', timeout, run_ret')
    /\ UNCHANGED <<swarm, filters, cfg_before, ops, cfg, memory, disk, frame,
                   mem_before, ghost, runs, timeout>>

\* Flow.filtered_run(task), line 751: call run.
FilteredRunStart(t) ==
    /\ wrapper = "none"
    /\ RunBody(t)
    /\ wrapper' = "filtered_run"
    /\ UNCHANGED <<timeout, elapsed, run_ret>>

\* filtered_run, line 752: run has returned;
\* `return self.apply_response_filters(raw_response)` names a method the class
\* does not define (it defines apply_reponse_filters): AttributeError.
FilteredRunFinish ==
    /\ wrapper = "filtered_run"
    /\ pc = "done"
    /\ wrapper' = "none"
    /\ last_op' = "filtered_run"
    /\ run_ret' = ret
    /\ ret' = IF FilteredRunTarget \in FlowMethods
              THEN [kind |-> "filtered", input |-> ret.response,
                    text |-> apply_reponse_filters(response_filters, ret.response)]
              ELSE [kind |-> "raise", error |-> "AttributeError"]
    /\ UNCHANGED <<swarm, filters, cfg_before, ops, cfg, memory, disk, frame,
                   mem_before, ghost, runs, timeout, elapsed>>

\* The run called by run_with_timeout or filtered_run has raised: neither
\* catches it.
WrapperPropagate ==
    /\ wrapper # "none"
    /\ pc = "raised"
    /\ wrapper' = "none"
    /\ last_op' = wrapper
    /\ UNCHANGED <<swarm, filters, cfg_before, ops, cfg, memory, disk, frame,
                   ret, mem_before, ghost, runs, timeout, elapsed, run_ret>>

\* Flow.run_concurrent(tasks), awaited, lines 574-575: the list comprehension
\* looks up self.run_async for the first task, a method the class does not
\* define: AttributeError.  With no task, gather() gives [].
RunConcurrent(ts) ==
    /\ Quiescent
    /\ wrapper = "none"
    /\ last_op' = "run_concurrent"
    /\ mem_before' = memory
    /\ ret' = IF ts = <<>>
              THEN [kind |-> "list", tasks |-> ts, value |-> <<>>]
              ELSE IF ConcurrentTarget \in FlowMethods
                   THEN [kind |-> "coroutines", tasks |-> ts, value |-> <<>>]
                   ELSE [kind |-> "raise", tasks |-> ts, value |-> <<>>]
    /\ UNCHANGED <<swarm, filters, cfg_before, ops, cfg, memory, disk, frame,
                   ghost, runs, wrap>>

\* One run on a fresh Flow, called through run_with_timeout or filtered_run,
\* and run_concurrent, over the non-interactive configurations without a
\* stopping condition.
WrappedTasks == {OK_WORD}
WrappedResponses == {OK_WORD, <<"a">> \o DONE_TOKEN}

InitWrapped ==
    /\ Init
    /\ stopping_condition = NoCondition
    /\ stopping_token \in {NONE, DONE_TOKEN}
    /\ interactive = FALSE

NextWrapped ==
    \/ \E t \in WrappedTasks, s \in Timeouts : runs = 0 /\ RunWithTimeoutStart(t, s)
    \/ \E extra \in ExtraSeconds : RunWithTimeoutFinish(extra)
    \/ \E t \in WrappedTasks : runs = 0 /\ FilteredRunStart(t)
    \/ FilteredRunFinish
    \/ WrapperPropagate
    \/ \E ts \in TaskLists : RunConcurrent(ts)
    \/ LoopEnter
    \/ LoopEnd
    \/ StopBreak
    \/ StopPass
    \/ TemperatureRaise
    \/ TemperatureSkip
    \/ PreparePrompt
    \/ LlmInvoke
    \/ RetryExhausted
    \/ \E r \in WrappedResponses : LlmReturn(r)
    \/ LlmRaise
    \/ RetrySleep
    \/ AfterRetry
    \/ RunExit

SpecWrapped == InitWrapped /\ [][NextWrapped]_vars

----------------------------------------------------------------------------
\* ---- Flow.arun (lines 465-536) ----
\* arun repeats the text of run; the steps whose text is the same (the while
\* test, the temperature step, the prompt, the retry test, the sleeps, line
\* 526 and the exit) are the actions of run above.  Two steps differ: the
\* stopping check, and the argument of the model call.

\* `task**kwargs`: str defines no __pow__ and dict no __rpow__.
PowSupported(left, right) == FALSE

\* Flow.arun(task), lines 480-490: seed the response and the history.
ARunStart(t) ==
    /\ Quiescent
    /\ runs = 0
    /\ runs' = runs + 1
    /\ task' = t
    /\ response' = t
    /\ history' = <<UserTurn(t)>>
    /\ loop_count' = 0
    /\ attempt' = 0
    /\ pc' = "loop_test"
    /\ ret' = NoReturn
    /\ last_op' = "arun"
    /\ seed' = t
    /\ mem_before' = memory
    /\ invocations' = 0
    /\ failures' = 0
    /\ iter_calls' = 0
    /\ iter_ok' = FALSE
    /\ need_delay' = FALSE
    /\ exhausted' = FALSE
    /\ iter_start_len' = 1
    /\ agent_response' = <<>>
    /\ exit_reason' = "none"
    /\ UNCHANGED <<wrap, swarm, filters, cfg_before, ops, cfg, memory, disk>>

\* arun, lines 497-498: the stopping check, with no test of stopping_token
\* before it, breaks out of the loop.
AStopBreak ==
    /\ pc = "stop_check"
    /\ StopMatches(stopping_condition, response)
    /\ pc' = "exit"
    /\ exit_reason' = "break"
    /\ UNCHANGED <<wrap, swarm, filters, cfg_before, ops, cfg, memory, disk,
                   task, response, history, loop_count, attempt, ret, last_op,
                   mem_before, seed, invocations, failures, iter_calls,
                   iter_ok, need_delay, exhausted, iter_start_len,
                   agent_response, runs>>

\* arun, lines 497-498: the stopping check lets the iteration go on.
AStopPass ==
    /\ pc = "stop_check"
    /\ ~StopMatches(stopping_condition, response)
    /\ pc' = "temperature"
    /\ UNCHANGED <<wrap, swarm, filters, cfg_before, ops, cfg, memory, disk,
                   task, response, history, loop_count, attempt, ret, last_op,
                   mem_before, ghost, runs>>

\* arun, lines 508-525: the retry test holds; the argument `task**kwargs` of
\* the call is evaluated first and raises TypeError inside the try, so
\* self.llm is not called: the error is logged and `attempt += 1`.
ACall ==
    /\ pc = "retry_test"
    /\ RetryCondition(attempt, retry_attempts)
    /\ IF PowSupported("str", "dict")
       THEN /\ pc' = "in_flight"
            /\ invocations' = invocations + 1
            /\ iter_calls' = iter_calls + 1
            /\ UNCHANGED <<attempt, need_delay>>
       ELSE /\ pc' = "retry_sleep"
            /\ attempt' = attempt + 1
            /\ need_delay' = TRUE
            /\ UNCHANGED <<invocations, iter_calls>>
    /\ UNCHANGED <<wrap, swarm, filters, cfg_before, ops, cfg, memory, disk,
                   task, response, history, loop_count, ret, last_op,
                   mem_before, seed, failures, iter_ok, exhausted,
                   iter_start_len, agent_response, exit_reason, runs>>

\* One arun call on a freshly constructed Flow, over every configuration.
NextAsync ==
    \/ \E t \in Tasks : ARunStart(t)
    \/ LoopEnter
    \/ LoopEnd
    \/ AStopBreak
    \/ AStopPass
    \/ TemperatureRaise
    \/ TemperatureSkip
    \/ PreparePrompt
    \/ ACall
    \/ RetryExhausted
    \/ RetrySleep
    \/ AfterRetry
    \/ RunExit

SpecAsync == Init /\ [][NextAsync]_vars

----------------------------------------------------------------------------
\* ---- Flow.run to its end, with a finite max_loops and with dynamic_loops ----

\* Iterations of an unbounded loop that a behaviour follows.
MaxAutoLoops == 3

LoopTasks == {OK_WORD}
LoopResponses == {OK_WORD, <<"a">> \o DONE_TOKEN}

\* Flow(llm, max_loops=N) and Flow(llm, dynamic_loops=True), with or without
\* a stopping token, non-interactive.
InitLoops ==
    /\ FlowInitLoops(1..MaxLoops \cup {AUTO})
    /\ NoSwarm
    /\ stopping_condition = NoCondition
    /\ stopping_token \in {NONE, DONE_TOKEN}
    /\ interactive = FALSE
    /\ return_history = FALSE
    /\ autosave = FALSE

\* One run; of a loop without bound the first MaxAutoLoops iterations.
NextLoops ==
    \/ \E t \in LoopTasks : FirstRun(t)
    \/ (max_loops = AUTO => loop_count < MaxAutoLoops) /\ LoopEnter
    \/ LoopEnd
    \/ StopBreak
    \/ StopPass
    \/ TemperatureRaise
    \/ TemperatureSkip
    \/ PreparePrompt
    \/ LlmInvoke
    \/ RetryExhausted
    \/ \E r \in LoopResponses : LlmReturn(r)
    \/ LlmRaise
    \/ RetrySleep
    \/ AfterRetry
    \/ RunExit

\* The interpreter executes the next statement of Flow.run, and a call of
\* self.llm returns or raises.
SpecLoops == InitLoops /\ [][NextLoops]_vars /\ WF_vars(NextLoops)

----------------------------------------------------------------------------
\* ---- the session log: step, truncate_history, beside run, undo_last and
\* ---- the checkpoint ----

\* Calls of step, truncate_history, save_state and load_state in one behaviour
\* of the session log.
MaxSessionOps == 2

\* The default of Flow.__init__'s context_length parameter.
InitDefaultContextLength == 8192

\* The attributes Flow.__init__ assigns (lines 162-186).  The context_length
\* parameter is not among them.
InitAttributes ==
    {"llm", "max_loops", "stopping_condition", "loop_interval",
     "retry_attempts", "retry_interval", "feedback", "memory", "task",
     "stopping_token", "interactive", "dashboard", "return_history",
     "dynamic_temperature", "dynamic_loops", "user_name", "system_prompt",
     "agent_name", "saved_state_path", "autosave", "response_filters"}

\* The attribute truncate_history reads (line 306).
TruncateAttribute == "context_length"

\* `s[-n:]` for n >= 0: the last n entries; the whole of s when n = 0 (-0 is
\* 0) or n > len(s).
TruncateTail(s, n) ==
    IF n = 0 \/ n >= Len(s) THEN s ELSE SubSeq(s, Len(s) - n + 1, Len(s))

\* Flow.truncate_history, lines 306-307.  `self.memory[-1]` is evaluated first
\* (IndexError on an empty memory), then `self.context_length`.
TruncateHistory ==
    /\ Quiescent
    /\ ops < MaxSessionOps
    /\ ops' = ops + 1
    /\ last_op' = "truncate_history"
    /\ mem_before' = memory
    /\ pc' = "idle"
    /\ IF memory = <<>>
       THEN /\ ret' = [kind |-> "raise", error |-> "IndexError"]
            /\ memory' = memory
       ELSE IF TruncateAttribute \notin InitAttributes
       THEN /\ ret' = [kind |-> "raise", error |-> "AttributeError"]
            /\ memory' = memory
       ELSE /\ ret' = [kind |-> "truncated"]
            /\ memory' = [memory EXCEPT ![Len(memory)] =
                              TruncateTail(@, InitDefaultContextLength)]
    /\ UNCHANGED <<wrap, swarm, filters, cfg_before, cfg, disk, task, response,
                   history, loop_count, attempt, ghost, runs>>

\* step, lines 655-659: what the memory gets after self.llm returned r.
StepMemory(mem, ia, t, r) ==
    IF ia THEN mem \o <<AgentTurn(r), HumanTurn(t)>>
    ELSE Append(mem, AgentTurn(r))

\* Flow.step(task), lines 650-661: self.llm(task) returns r.
Step(t, r) ==
    /\ Quiescent
    /\ ops < MaxSessionOps
    /\ ops' = ops + 1
    /\ last_op' = "step"
    /\ mem_before' = memory
    /\ pc' = "idle"
    /\ memory' = StepMemory(memory, interactive, t, r)
    /\ ret' = [kind |-> "value", value |-> r]
    /\ UNCHANGED <<wrap, swarm, filters, cfg_before, cfg, disk, task, response,
                   history, loop_count, attempt, ghost, runs>>

\* Flow.step(task), lines 662-664: self.llm(task) raises; the error is logged
\* and raised again.
StepRaise(t) ==
    /\ Quiescent
    /\ ops < MaxSessionOps
    /\ ops' = ops + 1
    /\ last_op' = "step"
    /\ mem_before' = memory
    /\ pc' = "idle"
    /\ ret' = [kind |-> "raise", error |-> "Exception"]
    /\ UNCHANGED <<wrap, swarm, filters, cfg_before, cfg, memory, disk, task,
                   response, history, loop_count, attempt, ghost, runs>>

SessionTexts == {OK_WORD}

\* One Flow of one iteration per run, interactive or not.
InitSession ==
    /\ Init
    /\ max_loops = 1
    /\ retry_attempts = 1
    /\ stopping_condition = NoCondition
    /\ stopping_token = NONE
    /\ dynamic_temperature = FALSE
    /\ return_history = FALSE
    /\ autosave = FALSE

\* Calls on one Flow, one after the other: run, step, undo_last,
\* truncate_history, save_state, load_state.
NextSession ==
    \/ \E t \in SessionTexts : RunStart(t)
    \/ LoopEnter
    \/ LoopEnd
    \/ StopPass
    \/ TemperatureSkip
    \/ PreparePrompt
    \/ LlmInvoke
    \/ RetryExhausted
    \/ \E r \in SessionTexts : LlmReturn(r)
    \/ \E h \in SessionTexts : HumanInput(h)
    \/ LlmRaise
    \/ RetrySleep
    \/ AfterRetry
    \/ RunExit
    \/ UndoLast
    \/ \E t, r \in SessionTexts : Step(t, r)
    \/ \E t \in SessionTexts : StepRaise(t)
    \/ TruncateHistory
    \/ ops < MaxSessionOps /\ SaveState
    \/ ops < MaxSessionOps /\ LoadState

SpecSession == InitSession /\ [][NextSession]_vars

----------------------------------------------------------------------------
\* ---- GodMode: add_llm, remove_llm ----

\* Every element equal to x removed.
ListRemove_All(l, x) == SelectSeq(l, LAMBDA y : y # x)

\* list.remove(x): the list is scanned from the front and the first element
\* equal to x is taken out.  Called on lists that hold x.
RECURSIVE ListRemove(_, _)
ListRemove(l, x) ==
    IF l = <<>> THEN <<>>
    ELSE IF Head(l) = x THEN Tail(l)
    ELSE <<Head(l)>> \o ListRemove(Tail(l), x)

\* GodMode.add_llm(llm), line 154.
AddLlm(c) ==
    /\ SwarmQuiescent
    /\ swarm_calls < MaxSwarmCalls
    /\ swarm_calls' = swarm_calls + 1
    /\ swarm_op' = "add_llm"
    /\ swarm_llm' = c
    /\ llms' = Append(llms, c)
    /\ swarm_pc' = "returned"
    /\ swarm_ret' = [kind |-> "None"]
    /\ swarm_before' = [last_responses |-> last_responses,
                        task_history |-> task_history]
    /\ UNCHANGED <<wrap, last_responses, task_history, swarm_task, futures,
                   completed, responses, collected, cfg, memory, disk, frame,
                   ret, last_op, mem_before, ghost, runs, filters, cfg_before,
                   ops>>

\* GodMode.remove_llm(llm), line 158: list.remove raises ValueError when the
\* list does not hold llm.
RemoveLlm(c) ==
    /\ SwarmQuiescent
    /\ swarm_calls < MaxSwarmCalls
    /\ swarm_calls' = swarm_calls + 1
    /\ swarm_op' = "remove_llm"
    /\ swarm_llm' = c
    /\ IF c \in Range(llms)
       THEN /\ llms' = ListRemove(llms, c)
            /\ swarm_pc' = "returned"
            /\ swarm_ret' = [kind |-> "None"]
       ELSE /\ llms' = llms
            /\ swarm_pc' = "raised"
            /\ swarm_ret' = [kind |-> "raise", error |-> "ValueError"]
    /\ swarm_before' = [last_responses |-> last_responses,
                        task_history |-> task_history]
    /\ UNCHANGED <<wrap, last_responses, task_history, swarm_task, futures,
                   completed, responses, collected, cfg, memory, disk, frame,
                   ret, last_op, mem_before, ghost, runs, filters, cfg_before,
                   ops>>

MembershipTasks == {STOP_WORD}

\* One GodMode whose membership changes between its calls; a membership of
\* MaxLlms capabilities gets no further one.
NextMembership ==
    \/ \E c \in Capabilities : Len(llms) < MaxLlms /\ AddLlm(c)
    \/ \E c \in Capabilities : RemoveLlm(c)
    \/ \E t \in MembershipTasks : SwarmRunStart(t)
    \/ \E t \in MembershipTasks : ConcurrentStart(t)
    \/ \E i \in 1..MaxLlms : FutureReturn(i)
    \/ \E i \in 1..MaxLlms : FutureRaise(i)
    \/ SwarmRunFinish
    \/ \E i \in 1..MaxLlms : Collect(i)
    \/ ConcurrentFinish

SpecMembership == InitSwarm /\ [][NextMembership]_vars

----------------------------------------------------------------------------
\* ---- the claims ----

\* Neither a stopping token nor a stopping condition is configured.
NoStoppingPolicy == ~Truthy(stopping_token) /\ stopping_condition = NoCondition

\* C1: with max_loops = N, no stopping token, no stopping condition,
\* interactive off and a model that never raises, a run that has returned made
\* exactly N model invocations and its session has exactly 1 + N turns.
C1_ExactlyNInvocationsAndTurns ==
    (pc = "done" /\ NoStoppingPolicy /\ ~interactive /\ failures = 0)
        => (invocations = max_loops /\ Len(history) = 1 + max_loops)

\* C2: with a stopping token configured (interactive off), once the model has
\* returned a response that contains the configured token, the run makes no
\* further model invocation.
C2_NoInvocationAfterTokenResponse ==
    (pc = "in_flight" /\ Truthy(stopping_token) /\ ~interactive
        /\ agent_response # <<>> /\ response = agent_response)
        => ~IsSubstring(stopping_token, agent_response)

\* The seed task matches the configured stopping token or the configured
\* stopping condition.
SeedMatchesPolicy ==
    \/ Truthy(stopping_token) /\ IsSubstring(stopping_token, seed)
    \/ stopping_condition # NoCondition /\ ApplyCondition(stopping_condition, seed)

\* C3: if the seed task matches the stopping token or the stopping condition,
\* the run makes no model invocation and its session is the seed User turn alone.
C3_SeedMatchShortCircuits ==
    (pc = "done" /\ SeedMatchesPolicy)
        => (invocations = 0 /\ history = <<UserTurn(seed)>>)

\* C4: with a stopping condition and no stopping token configured, the model
\* is never invoked while the condition is true of the current response.
C4_ConditionAloneStops ==
    (pc = "in_flight" /\ ~Truthy(stopping_token) /\ stopping_condition # NoCondition)
        => ~ApplyCondition(stopping_condition, response)

\* C5: with neither a stopping token nor a stopping condition configured, the
\* loop is left only by its while test, with loop_count = max_loops, whatever
\* the responses contain.
C5_NoPolicyOnlyMaxLoops ==
    (pc \in {"exit", "done"} /\ NoStoppingPolicy)
        => (exit_reason = "MaxLoopsReached" /\ loop_count = max_loops)

\* C5's case: no policy, the first recorded response contains "<DONE>", and the
\* run went on to a second model invocation before it returned.
C5_Witness ==
    /\ pc = "done"
    /\ NoStoppingPolicy
    /\ Len(history) >= 2
    /\ parse_done_token(history[2])
    /\ invocations >= 2

C7_ExhaustedRetriesFail ==
    exhausted => pc \notin {"stop_check", "done"}

\* C8: an iteration whose invocations all raised leaves the session as long
\* as it was when the iteration started.
C8_FailedIterationAddsNoTurn ==
    (pc = "loop_test" /\ loop_count >= 1 /\ ~iter_ok)
        => Len(history) = iter_start_len

\* C9: a run that left its loop and returned has appended exactly one session
\* to the memory, as its last element, and that session is the history it
\* returns when the history is asked for.
C9_RunAppendsOneSession ==
    (pc = "done" /\ last_op = "run")
        => /\ Len(memory) = Len(mem_before) + 1
           /\ SubSeq(memory, 1, Len(mem_before)) = mem_before
           /\ memory[Len(memory)] = history
           /\ return_history =>
                (ret.kind = "response_history" /\ ret.history = memory[Len(memory)])

\* C9's case: a second run, returning its history, on a memory that already
\* holds a different session.
C9_Witness ==
    /\ pc = "done"
    /\ last_op = "run"
    /\ return_history
    /\ Len(mem_before) = 1
    /\ mem_before[1] # history

\* C10: undo_last on a memory of fewer than two sessions returns (None, None)
\* and leaves the memory as it was; on two or more it removes the last session
\* alone and returns the last turn of the session that is now last.
C10_UndoLast ==
    (last_op = "undo_last" /\ pc = "idle")
        => IF Len(mem_before) < 2
           THEN memory = mem_before /\ ret.state = NONE /\ ret.message = NONE
           ELSE /\ memory = SubSeq(mem_before, 1, Len(mem_before) - 1)
                /\ ret.state = Last(memory[Len(memory)])

\* C10's case: undo_last has removed the second of two sessions, and the
\* session now last has several turns.
C10_Witness ==
    /\ last_op = "undo_last"
    /\ pc = "idle"
    /\ Len(mem_before) = 2
    /\ Len(memory) = 1
    /\ Len(memory[1]) >= 3
    /\ ret.state = Last(memory[1])

\* load_state has just returned normally.
Loaded == last_op = "load_state" /\ ret.kind = "loaded"

\* C11: after save_state then load_state, the memory and the five scalar
\* fields loop_interval, retry_attempts, retry_interval, interactive and
\* dynamic_temperature have the values they had at the save (the values in
\* the document), whatever happened to them between the save and the load.
C11_RoundTripRestores ==
    Loaded
        => /\ memory = disk.state.memory
           /\ loop_interval = disk.state.loop_interval
           /\ retry_attempts = disk.state.retry_attempts
           /\ retry_interval = disk.state.retry_interval
           /\ interactive = disk.state.interactive
           /\ dynamic_temperature = disk.state.dynamic_temperature

\* C12: load_state leaves the fields the document does not carry (max_loops,
\* stopping_condition, stopping_token, return_history, autosave) at the value
\* they had before the load.
C12_AbsentFieldsKept ==
    Loaded
        => /\ max_loops = cfg_before.max_loops
           /\ stopping_condition = cfg_before.stopping_condition
           /\ stopping_token = cfg_before.stopping_token
           /\ return_history = cfg_before.return_history
           /\ autosave = cfg_before.autosave

\* C13: load_state where no file exists raises, and leaves the memory and
\* every configuration field as they were.
C13_MissingFileLoadFails ==
    (last_op = "load_state" /\ disk = NoFile)
        => (ret.kind = "raise" /\ Snapshot = cfg_before)

\* C13's case: a load without a file has raised on a Flow whose run has
\* recorded a session.
C13_Witness ==
    /\ last_op = "load_state"
    /\ disk = NoFile
    /\ ret.kind = "raise"
    /\ Len(memory) = 1
    /\ Len(memory[1]) >= 3

\* C14: with autosave set, when Flow.run has handed control back to its
\* caller, by returning or by raising, the file holds the full state of the
\* Flow as it is then.
C14_AutosavePersists ==
    (autosave /\ last_op = "run" /\ pc \in {"done", "raised"})
        => disk = FileOf(SavedState(memory, loop_interval, retry_attempts,
                                    retry_interval, interactive, dashboard,
                                    dynamic_temperature))

\* C15: with dynamic_temperature set, the temperature step of an iteration
\* completes and the run goes on to the model invocation: the run never ends
\* at the temperature step.
C15_TemperatureStepProceeds ==
    (dynamic_temperature /\ last_op = "run") => pc # "raised"

\* What add_response_filter was called with is a substring of nothing that
\* apply_reponse_filters returns.
NoRequestedWordLeft ==
    \A i \in 1..Len(filters_requested) :
        ~IsSubstring(filters_requested[i], ret.text)

\* C16: after add_response_filter(w), apply_reponse_filters(text) returns the
\* text with every occurrence of w replaced by "[FILTERED]": no occurrence of
\* w is left in it, and with the single filter "report" the text
\* "the report is ready" becomes "the [FILTERED] is ready".
C16_FiltersReplace ==
    last_op = "apply_reponse_filters"
        => /\ NoRequestedWordLeft
           /\ (filters_requested = <<REPORT>>
               /\ ret.input = <<"t", "h", "e", " ">> \o REPORT
                                \o <<" ", "i", "s", " ", "r", "e", "a", "d", "y">>)
                  => ret.text = <<"t", "h", "e", " ">> \o FILTERED
                                    \o <<" ", "i", "s", " ", "r", "e", "a", "d", "y">>

\* What each capability of the membership returns for the task, by position.
RunValues == [i \in DOMAIN llms |-> CapabilityValue(llms[i], swarm_task)]

\* The sequences a and b hold the same values the same number of times.
SameBag(a, b) ==
    /\ Len(a) = Len(b)
    /\ \A v \in Range(a) \cup Range(b) :
           Cardinality({i \in DOMAIN a : a[i] = v})
               = Cardinality({i \in DOMAIN b : b[i] = v})

\* C17: GodMode.run(task) returns one response per capability, and the
\* response at position i is what capability i returned for the task, in
\* whatever order the calls finished.
C17_RunIndexAligned ==
    (swarm_op = "run" /\ swarm_pc = "returned")
        => /\ Len(swarm_ret.value) = Len(llms)
           /\ \A i \in DOMAIN llms :
                  swarm_ret.value[i] = CapabilityValue(llms[i], swarm_task)

\* C17's case: run has returned after the second of two capabilities, which
\* return different values, finished first.
C17_Witness ==
    /\ swarm_op = "run"
    /\ swarm_pc = "returned"
    /\ Len(llms) = 2
    /\ completed = <<2, 1>>
    /\ swarm_ret.value[1] # swarm_ret.value[2]

\* C18: when no capability raises, concurrent_run(task) returns a permutation
\* of what run(task) returns for the same membership, however the calls
\* finish and are collected.
C18_ConcurrentIsPermutation ==
    (swarm_op = "concurrent_run" /\ swarm_pc = "returned" /\ ~AnyRaised(futures))
        => SameBag(swarm_ret.value, RunValues)

\* C18's case: concurrent_run has returned the values of two capabilities in
\* an order that is not the order of the membership.
C18_Witness ==
    /\ swarm_op = "concurrent_run"
    /\ swarm_pc = "returned"
    /\ ~AnyRaised(futures)
    /\ Len(llms) = 2
    /\ swarm_ret.value = <<RunValues[2], RunValues[1]>>
    /\ RunValues[1] # RunValues[2]

\* C19: the list concurrent_run returns has exactly one entry per capability,
\* a raising capability included.
C19_OneEntryPerCapability ==
    (swarm_op = "concurrent_run" /\ swarm_pc = "returned")
        => Len(swarm_ret.value) = Len(llms)

\* C20: while a concurrent_run call is collecting, last_responses and
\* task_history hold the values they had when the call started; when it has
\* returned, every call it dispatched has finished, last_responses is the
\* list it returned and task_history is the previous one with the task
\* appended once.
C20_WritesAfterCompletion ==
    swarm_op = "concurrent_run"
        => IF swarm_pc = "returned"
           THEN /\ AllFinished(futures)
                /\ last_responses = swarm_ret.value
                /\ task_history = Append(swarm_before.task_history, swarm_task)
           ELSE /\ last_responses = swarm_before.last_responses
                /\ task_history = swarm_before.task_history

\* C20's case: a second concurrent_run over two capabilities has returned and
\* replaced the list of the first.
C20_Witness ==
    /\ swarm_op = "concurrent_run"
    /\ swarm_pc = "returned"
    /\ Len(llms) = 2
    /\ Len(task_history) = 2
    /\ swarm_before.last_responses # NONE
    /\ last_responses # swarm_before.last_responses

\* The text s begins with the text p.
HasPrefix(p, s) == Len(s) >= Len(p) /\ SubSeq(s, 1, Len(p)) = p

\* The text matches the configured stopping token or the configured stopping
\* condition.
PolicyMatches(text) ==
    \/ Truthy(stopping_token) /\ IsSubstring(stopping_token, text)
    \/ stopping_condition # NoCondition /\ ApplyCondition(stopping_condition, text)

\* C23: in interactive mode, with max_loops = N, no stopping policy and no
\* failure, the session of a returned run has 1 + 2N turns: the seed, then N
\* times an AI turn followed by a Human turn.
C23_InteractiveTurns ==
    (pc = "done" /\ NoStoppingPolicy /\ interactive /\ failures = 0)
        => /\ Len(history) = 1 + 2 * max_loops
           /\ \A k \in 1..max_loops :
                  /\ HasPrefix(AI_PREFIX, history[2 * k])
                  /\ HasPrefix(HUMAN_PREFIX, history[2 * k + 1])

\* C24: in interactive mode (no failure), from the second iteration on the
\* stopping decision follows the human turn just given, which is the current
\* response: the loop is broken only if it matches the stopping policy, and
\* the iteration goes on only if it does not.
C24_HumanTurnDecides ==
    (interactive /\ failures = 0 /\ loop_count >= 2)
        => /\ (pc = "exit" /\ exit_reason = "break") => PolicyMatches(response)
           /\ pc = "temperature" => ~PolicyMatches(response)

\* The text of a turn, without its "Human: " or "AI: " prefix.
TurnText(turn) ==
    IF HasPrefix(HUMAN_PREFIX, turn)
    THEN SubSeq(turn, Len(HUMAN_PREFIX) + 1, Len(turn))
    ELSE IF HasPrefix(AI_PREFIX, turn)
         THEN SubSeq(turn, Len(AI_PREFIX) + 1, Len(turn))
         ELSE turn

\* C25: the prompt a model call receives holds the system prompt and the text
\* of every turn the session has recorded so far.
C25_PromptHoldsSession ==
    pc = "in_flight"
        => /\ IsSubstring(FLOW_SYSTEM_PROMPT, task)
           /\ \A i \in 1..Len(history) : IsSubstring(TurnText(history[i]), task)

\* C30: when the loop has been left with a current response shorter than
\* five characters, it was left by its while test at loop_count = max_loops,
\* or by the stopping check on a response that matches the stopping policy.
C30_ShortResponseNeverEnds ==
    (pc = "exit" /\ ~validate_response(response))
        => \/ exit_reason = "MaxLoopsReached" /\ loop_count = max_loops
           \/ exit_reason = "break" /\ PolicyMatches(response)

\* C30's case: with a stopping token set, two iterations have each checked and
\* then produced a response shorter than five characters, and the run has
\* returned at max_loops.
C30_Witness ==
    /\ pc = "done"
    /\ Truthy(stopping_token)
    /\ ~interactive
    /\ max_loops = 2
    /\ invocations = 2
    /\ failures = 0
    /\ exit_reason = "MaxLoopsReached"
    /\ ~validate_response(response)
    /\ response = agent_response

\* C27: GodMode.run does not raise when a capability raises: it returns, with
\* one entry per capability.
C27_RunIsolatesFailures ==
    (swarm_op = "run" /\ swarm_pc \in {"returned", "raised"})
        => (swarm_pc = "returned" /\ Len(swarm_ret.value) = Len(llms))

\* C28: when a call of run or concurrent_run has returned, task_history is
\* what it was when the call started with the call's task appended.
C28_TaskHistoryAppendOnly ==
    swarm_pc = "returned"
        => task_history = Append(swarm_before.task_history, swarm_task)

\* C21: after run_concurrent over k tasks, the memory has gained exactly k
\* sessions, the one of each task beginning with that task's seed User turn.
C21_ConcurrentSessions ==
    last_op = "run_concurrent"
        => /\ ret.kind # "raise"
           /\ Len(memory) = Len(mem_before) + Len(ret.tasks)
           /\ \A k \in 1..Len(ret.tasks) :
                  \E j \in (Len(mem_before) + 1)..Len(memory) :
                      memory[j][1] = UserTurn(ret.tasks[k])

C29_FilteredRun ==
    /\ (pc = "after_retry" /\ iter_ok /\ ~interactive)
           => (response = agent_response
               /\ Last(history) = AgentTurn(agent_response))
    /\ (last_op = "filtered_run" /\ wrapper = "none" /\ pc = "done")
           => /\ ret.kind = "filtered"
              /\ ret.text = apply_reponse_filters(response_filters,
                                                  run_ret.response)

\* What every returned call of Flow.run shows (it holds of run): a loop left
\* by its while test has invoked the model at least once per iteration, and
\* the loop is left by the stopping check only when a stopping token is set.
RunLikeBehaviour(op) ==
    (last_op = op /\ pc = "done")
        => /\ exit_reason = "MaxLoopsReached" => invocations >= max_loops
           /\ exit_reason = "break" => Truthy(stopping_token)

\* C26: arun makes the model invocations and the stopping decisions run makes
\* for the same configuration and task.
C26_ArunSameAsRun == RunLikeBehaviour("arun")

\* The agent turns recorded in a session so far.
AgentTurns(h) == Cardinality({i \in DOMAIN h : HasPrefix(AI_PREFIX, h[i])})

\* The self.llm calls of the current run that have started and not finished.
InFlight == IF pc = "in_flight" THEN 1 ELSE 0

C35_RunThenUndoInverse ==
    [][(/\ last_op = "run"
        /\ pc = "done"
        /\ Len(mem_before) >= 1
        /\ last_op' = "undo_last")
       => (/\ memory' = mem_before
           /\ ret'.kind = "undo"
           /\ ret'.state = Last(Last(mem_before)))]_vars

\* C35's case: a run on a memory of one session, then undo_last.
C35_Witness ==
    /\ last_op = "undo_last"
    /\ runs = 2
    /\ Len(mem_before) = 2
    /\ Len(memory) = 1
    /\ memory[1] = mem_before[1]
    /\ ret.state = Last(Last(memory))

\* C36: Flow.run only appends to the durable state of the Flow: no step of a
\* run changes a configuration field, and the sessions the memory held stay
\* where they were, unmodified.
C36_RunOnlyAppends ==
    [][last_op' = "run"
       => (/\ cfg' = cfg
           /\ Len(memory') >= Len(memory)
           /\ SubSeq(memory', 1, Len(memory)) = memory)]_vars

\* C36's case: a second run has returned on a memory that held a session.
C36_Witness ==
    /\ last_op = "run"
    /\ pc = "done"
    /\ runs = 2
    /\ Len(mem_before) = 1
    /\ Len(memory) = 2
    /\ memory[1] = mem_before[1]

\* The run in progress has ended, by returning or by raising.
RunEnded == pc \in {"done", "raised"}

\* C34, first part: with a finite max_loops = N a run makes at most N loop
\* iterations and at most N x retry_attempts model invocations.
C34_Bounds ==
    max_loops # AUTO =>
        /\ loop_count <= max_loops
        /\ invocations <= max_loops * retry_attempts

\* C34, second part: with max_loops unbounded and no stopping token the run
\* never leaves the loop.
C34_UnboundedNeverLeaves ==
    (max_loops = AUTO /\ ~Truthy(stopping_token))
        => pc \notin {"exit", "done", "raised"}

\* C34: with a finite max_loops and model invocations that always return or
\* raise, Flow.run always terminates, within the bounds of the first part;
\* with max_loops unbounded and no stopping token it never leaves the loop.
C34_Termination ==
    /\ []C34_Bounds
    /\ (max_loops # AUTO /\ pc = "loop_test") ~> RunEnded
    /\ []C34_UnboundedNeverLeaves

\* What the memory is meant to hold: a non-empty list of turns that starts
\* with the seed turn of the user.
IsSession(e) ==
    /\ Len(e) >= 1
    /\ Len(e[1]) > 1
    /\ HasPrefix(UserTurn(<<>>), e[1])

\* C32: truncation is opt-in only: Flow.run never shortens the session over
\* its iterations, and truncate_history on a memory that holds a session
\* keeps the last context_length turns of the last session and leaves every
\* earlier element as it was.
C32_TruncationOptIn ==
    /\ last_op = "run" => Len(history) >= iter_start_len
    /\ (last_op = "truncate_history" /\ mem_before # <<>>) =>
        /\ ret.kind # "raise"
        /\ Len(memory) = Len(mem_before)
        /\ SubSeq(memory, 1, Len(memory) - 1)
               = SubSeq(mem_before, 1, Len(mem_before) - 1)
        /\ Last(memory) = TruncateTail(Last(mem_before), InitDefaultContextLength)

\* C33: whatever sequence of run, step, undo_last, truncate_history and
\* load_state (of a file this Flow saved) was called, every element of the
\* memory is a session: no operation appends a bare turn to the memory.
C33_MemoryHoldsSessions ==
    \A i \in DOMAIN memory : IsSession(memory[i])

\* A call of GodMode.run or GodMode.concurrent_run has ended.
BroadcastEnded ==
    swarm_op \in {"run", "concurrent_run"} /\ swarm_pc \in {"returned", "raised"}

\* C37, at the end of a call: every position of the membership was invoked
\* exactly once, and what a capability returned is its value for the task as
\* the caller passed it.
C37_OncePerPosition ==
    BroadcastEnded =>
        /\ DOMAIN futures = DOMAIN llms
        /\ Len(completed) = Len(llms)
        /\ \A i \in DOMAIN llms :
              /\ Cardinality({k \in DOMAIN completed : completed[k] = i}) = 1
              /\ futures[i].state = "returned"
                     => futures[i].value = CapabilityValue(llms[i], swarm_task)

\* C37: each call of GodMode.run or GodMode.concurrent_run invokes every
\* capability of the membership exactly once per position (a capability held
\* twice is invoked twice), always with the unmodified task, and no step of
\* the call changes the membership list.
C37_BroadcastInvokesAll ==
    /\ []C37_OncePerPosition
    /\ [][swarm_op' \in {"run", "concurrent_run"} => llms' = llms]_vars

\* C37's case: a call has ended on a membership that holds one capability
\* twice, after the membership was changed, and both positions returned.
C37_Witness ==
    /\ BroadcastEnded
    /\ swarm_calls = 2
    /\ swarm_llm # "none"
    /\ Len(llms) = 2
    /\ llms[1] = llms[2]
    /\ \A i \in DOMAIN futures : futures[i].state = "returned"

\* C38: add_llm(c) appends c at the end of the membership and keeps the
\* order of the members; remove_llm(c) takes out exactly the first occurrence
\* of c and keeps the order of the rest; remove_llm of a capability that is no
\* member fails with an error and leaves the membership unchanged.
C38_MembershipOps ==
    [][/\ (swarm_op' = "add_llm" /\ swarm_calls' # swarm_calls)
            => (llms' = Append(llms, swarm_llm') /\ swarm_pc' = "returned")
       /\ (swarm_op' = "remove_llm" /\ swarm_calls' # swarm_calls)
            => IF \E i \in DOMAIN llms : llms[i] = swarm_llm'
               THEN /\ swarm_pc' = "returned"
                    /\ \E i \in DOMAIN llms :
                          /\ llms[i] = swarm_llm'
                          /\ \A j \in 1..(i - 1) : llms[j] # swarm_llm'
                          /\ llms' = SubSeq(llms, 1, i - 1)
                                         \o SubSeq(llms, i + 1, Len(llms))
               ELSE /\ swarm_pc' = "raised"
                    /\ swarm_ret'.kind = "raise"
                    /\ llms' = llms]_vars

\* C38's case: remove_llm took one of two occurrences of a capability out of
\* the membership.
C38_Witness ==
    /\ swarm_op = "remove_llm"
    /\ swarm_pc = "returned"
    /\ llms = <<swarm_llm>>
====
